---- MODULE Spec2Model ----
(***************************************************************************)
(* Model of the Robotaxi ride-history exporter.                            *)
(*                                                                         *)
(*   robotaxi_history.py  the command-line tool: PKCE credential store,    *)
(*                        OAuth client, paginated ride fetcher, exporter   *)
(*                        and the main() decision table                    *)
(*   web/server.py        the development proxy (ProxyHandler)             *)
(*                                                                         *)
(* None and every other falsy Python value of a token, verifier or         *)
(* endpoint is written 0.  A file is the set of its contents: {} is a      *)
(* missing file.  A state of the command-line tool is the position of      *)
(* main() at its next network call; each action runs the code up to and    *)
(* including the answer to that call.                                      *)
(***************************************************************************)
EXTENDS Integers, Sequences, FiniteSets, TLC

\* ------------------------------------------------------------------------
\* Bounds of the model
\* ------------------------------------------------------------------------
MaxRuns == 4

MaxPages == 3

MaxRequests == 2

\* ------------------------------------------------------------------------
\* Program constants
\* ------------------------------------------------------------------------
PAGE_SIZE == 100

\* API_ENDPOINTS, by position in the list
API_ENDPOINTS == {1, 2}

NumEndpoints == Cardinality(API_ENDPOINTS)

VARIABLES
    tokensFile,        \* TOKENS_FILE: set of [access_token, refresh_token]
    pkceFile,          \* PKCE_FILE: set of stored code verifiers
    runs,              \* number of invocations of the tool so far
    pc,                \* "idle" | "refresh" | "exchange" | "fetch" | "done"
    callback,          \* sys.argv[1]: "none" | "nocode" | "code"
    access_token,      \* main(): access_token
    refresh_token,     \* main(): refresh_token
    code_verifier,     \* complete_auth(): code_verifier
    page,              \* fetch_all_rides(): page
    working_endpoint,  \* fetch_all_rides(): working_endpoint (0 is None)
    cand,              \* get_ride_history(): position of the probing loop
    all_rides,         \* fetch_all_rides(): all_rides
    log,               \* network calls and token saves of this run, in order
    exitStatus,        \* -1 while running, else the process exit status
    failure,           \* the failure this run reported, or "none"
    csvFile,           \* CSV file written by this run: set of row counts
    jsonFile,          \* JSON file written by this run: set of record lists
    lastVerifier,      \* verifier behind the most recent authorization URL
    tokensAtStart,     \* TOKENS_FILE as this run found it
    pkceAtStart,       \* PKCE_FILE as this run found it
    ppc,               \* proxy: "idle" | "trying" | "replied"
    pquery,            \* proxy: query string of the request being served
    pidx,              \* proxy: position in the endpoints list
    pcalls,            \* proxy: upstream calls of this request, in order
    pstatus,           \* proxy: status sent to the client (0: none yet)
    pbody,             \* proxy: body sent to the client
    served,            \* proxy: number of requests received so far
    csvRecords,        \* exporter: the rides handed to the exporter
    csvOp,             \* exporter: "none" | "export_to_csv" | "fetch_and_export"
    csvOut,            \* exporter: the CSV file, set of [header, rows]
    jsonOut,           \* exporter: the JSON file, set of record lists
    storeOp,           \* PKCE store: "none" | "start" | "load" | "clear"
    storeOps,          \* PKCE store: number of operations so far
    storeLoaded,       \* PKCE store: what the last load_pkce() returned
    storeRaised,       \* PKCE store: whether an operation has raised
    storeCleared,      \* PKCE store: whether a clear followed the last start
    exPayload,         \* extraction: the payload get_ride_history returned
    exRides,           \* extraction: the ride list taken from it
    exPhase            \* extraction: "none" | "given" | "extracted"

cliVars == <<tokensFile, pkceFile, runs, pc, callback, access_token,
             refresh_token, code_verifier, page, working_endpoint, cand,
             all_rides, log, exitStatus, failure, csvFile, jsonFile,
             lastVerifier, tokensAtStart, pkceAtStart>>

proxyVars == <<ppc, pquery, pidx, pcalls, pstatus, pbody, served>>

exportVars == <<csvRecords, csvOp, csvOut, jsonOut>>

storeVars == <<storeOp, storeOps, storeLoaded, storeRaised, storeCleared>>

extractVars == <<exPayload, exRides, exPhase>>

vars == <<tokensFile, pkceFile, runs, pc, callback, access_token,
          refresh_token, code_verifier, page, working_endpoint, cand,
          all_rides, log, exitStatus, failure, csvFile, jsonFile,
          lastVerifier, tokensAtStart, pkceAtStart, ppc, pquery, pidx, pcalls,
          pstatus, pbody, served, csvRecords, csvOp, csvOut, jsonOut,
          storeOp, storeOps, storeLoaded, storeRaised, storeCleared,
          exPayload, exRides, exPhase>>

\* ------------------------------------------------------------------------
\* PKCE credential store
\* ------------------------------------------------------------------------
save_pkce_append(file, v) == file \cup {v}

\* open(PKCE_FILE, 'w') truncates, then the verifier is written
save_pkce(file, v) == {v}

load_pkce(file) == IF file = {} THEN 0 ELSE CHOOSE v \in file : TRUE

clear_pkce_keep(file) == file

clear_pkce(file) == {}

\* ------------------------------------------------------------------------
\* Token store
\* ------------------------------------------------------------------------
TokenPair(a, r) == [access_token |-> a, refresh_token |-> r]

\* open(TOKENS_FILE, 'w') truncates, then the pair is written
save_tokens(file, a, r) == {TokenPair(a, r)}

load_tokens(file) ==
    IF file = {} THEN TokenPair(0, 0) ELSE CHOOSE t \in file : TRUE

\* ------------------------------------------------------------------------
\* Events of a run
\* ------------------------------------------------------------------------
\* ev: the call; ep, page, pin: endpoint, pageNo and whether the endpoint
\* was pinned (GET); st: the status answered (0: the call raised); n: the
\* number of rides the upstream put in the body (GET); acc, ref: the tokens
\* answered (POST) or written (save_tokens); ver: the code_verifier or
\* refresh_token sent (POST)
Ev(e, ep, p, pin, st, n, a, r, v) ==
    [ev |-> e, ep |-> ep, page |-> p, pin |-> pin, st |-> st, n |-> n,
     acc |-> a, ref |-> r, ver |-> v]

EvRefresh(resp, rt) ==
    Ev("POST_refresh", 0, 0, FALSE, resp.st, 0, resp.acc, resp.ref, rt)

EvCode(resp, v) ==
    Ev("POST_code", 0, 0, FALSE, resp.st, 0, resp.acc, resp.ref, v)

EvSave(a, r) == Ev("save_tokens", 0, 0, FALSE, 0, 0, a, r, 0)

EvGet(ep, p, pin, o) == Ev("GET", ep, p, pin, o.st, o.n, 0, 0, 0)

\* ------------------------------------------------------------------------
\* Upstream answers
\* ------------------------------------------------------------------------
\* Answers of the token endpoint; fresh names the tokens it may issue.
\* st = 0 with fault: requests.post raised instead of returning.
TokenResponses(fresh) ==
    {[fault |-> FALSE, st |-> 200, acc |-> a, ref |-> r] :
        a \in {0, fresh}, r \in {0, fresh}}
    \cup {[fault |-> FALSE, st |-> s, acc |-> 0, ref |-> 0] : s \in {400, 401}}
    \cup {[fault |-> TRUE, st |-> 0, acc |-> 0, ref |-> 0]}

\* The rides of page p when the upstream holds n of them
PageRides(p, n) == [i \in 1..n |-> <<p, i>>]

PageSizes == {0, 5, 37, PAGE_SIZE}

\* A JSON payload: the kind of the top-level value, the kind of its "data"
\* member, and the lists found at data.rides, rides, data and top level.
Payload(top, data, hasDataRides, dataRides, hasRides, rides, dataItems, items) ==
    [top |-> top, data |-> data, hasDataRides |-> hasDataRides,
     dataRides |-> dataRides, hasRides |-> hasRides, rides |-> rides,
     dataItems |-> dataItems, items |-> items]

\* {"code": 200, "data": {"rides": [...]}}
NestedPayload(rs) == Payload("dict", "dict", TRUE, rs, FALSE, <<>>, <<>>, <<>>)

\* {"rides": [...]}
TopRidesPayload(rs) == Payload("dict", "absent", FALSE, <<>>, TRUE, rs, <<>>, <<>>)

\* [...]
ListPayload(rs) == Payload("list", "absent", FALSE, <<>>, FALSE, <<>>, <<>>, rs)

\* The bodies the upstream may send for n rides of page p
PageBodies(p, n) ==
    {NestedPayload(PageRides(p, n)), ListPayload(PageRides(p, n))}

\* Answers of a ride-history endpoint for page p: 200 with a body of n
\* rides, an error status, or a connection fault (st = 0).  A full page is
\* only served while p < MaxPages.
GetOutcomes(p) ==
    UNION {{[fault |-> FALSE, st |-> 200, n |-> n, body |-> b] :
               b \in PageBodies(p, n)} :
           n \in {m \in PageSizes : p < MaxPages \/ m < PAGE_SIZE}}
    \cup {[fault |-> FALSE, st |-> s, n |-> 0, body |-> ListPayload(<<>>)] :
            s \in {401, 500}}
    \cup {[fault |-> TRUE, st |-> 0, n |-> 0, body |-> ListPayload(<<>>)]}

\* ------------------------------------------------------------------------
\* fetch_all_rides: the ride list of a payload
\* ------------------------------------------------------------------------
ExtractRidesFallThrough(data) ==
    IF data.top = "dict" /\ data.data = "dict" /\ data.hasDataRides
    THEN data.dataRides
    ELSE IF data.top = "dict" /\ data.hasRides THEN data.rides
    ELSE IF data.top = "dict" /\ data.data = "list" THEN data.dataItems
    ELSE IF data.top = "list" THEN data.items
    ELSE <<>>

ExtractRides(data) ==
    IF data.top = "dict" /\ data.data = "dict"
    THEN IF data.hasDataRides THEN data.dataRides ELSE <<>>
    ELSE IF data.top = "dict"
    THEN IF data.hasRides THEN data.rides
         ELSE IF data.data = "list" THEN data.dataItems ELSE <<>>
    ELSE IF data.top = "list" THEN data.items ELSE <<>>

\* if rides (fetch_and_export)
HasRides(rides) == rides # <<>>

MorePagesAlways(rides) == TRUE

\* the loop goes on to the next page unless len(rides) < PAGE_SIZE
MorePages(rides) == ~(Len(rides) < PAGE_SIZE)

PartialResultDropped(rides) == <<>>

\* break, then return all_rides: what was accumulated is returned
PartialResult(rides) == rides

ProbeSucceedsOn401Too(o) == ~o.fault /\ o.st \in {200, 401}

\* if response.status_code == 200, with RequestException caught
ProbeSucceeds(o) == ~o.fault /\ o.st = 200

PinNothing(ep) == 0

\* get_ride_history returns the endpoint that answered 200
PinnedAfter(ep) == ep

\* ------------------------------------------------------------------------
\* main(): the conditions of the decision table
\* ------------------------------------------------------------------------
StoredSessionAnyArgs(t, cb) == t.access_token # 0 /\ t.refresh_token # 0

\* if access_token and refresh_token and not callback_url
StoredSession(t, cb) ==
    t.access_token # 0 /\ t.refresh_token # 0 /\ cb = "none"

RefreshOkAlways(new_access) == TRUE

\* if new_access
RefreshOk(new_access) == new_access # 0

SaveAfterLoginNever(rt) == FALSE

SaveAfterLoginAlways(rt) == TRUE

\* if refresh_token: save_tokens(...)
SaveAfterLogin(rt) == rt # 0

NoPendingNever(v) == FALSE

\* if not code_verifier
NoPending(v) == v = 0

HasCodeAlways(cb) == TRUE

\* 'code' in params
HasCode(cb) == cb = "code"

\* secrets.token_urlsafe(32): a verifier no earlier run has produced
generate_pkce_pair(run) == run

ExitStatusZero(f) == 0

\* The exit status of a run that reported failure f: sys.exit(1) in
\* complete_auth, an uncaught exception, or a normal return of main()
ExitStatus(f) ==
    IF f \in {"NoPendingSession", "MissingAuthCode", "TokenExchangeFailed",
              "NetworkFault"}
    THEN 1 ELSE 0

\* ------------------------------------------------------------------------
\* The command-line tool
\* ------------------------------------------------------------------------
Init ==
    /\ tokensFile = {}
    /\ pkceFile = {}
    /\ runs = 0
    /\ pc = "idle"
    /\ callback = "none"
    /\ access_token = 0
    /\ refresh_token = 0
    /\ code_verifier = 0
    /\ page = 1
    /\ working_endpoint = 0
    /\ cand = 1
    /\ all_rides = <<>>
    /\ log = <<>>
    /\ exitStatus = -1
    /\ failure = "none"
    /\ csvFile = {}
    /\ jsonFile = {}
    /\ lastVerifier = 0
    /\ tokensAtStart = {}
    /\ pkceAtStart = {}
    /\ ppc = "idle"
    /\ pquery = 0
    /\ pidx = 1
    /\ pcalls = <<>>
    /\ pstatus = 0
    /\ pbody = [kind |-> "none", val |-> 0]
    /\ served = 0
    /\ csvRecords = <<>>
    /\ csvOp = "none"
    /\ csvOut = {}
    /\ jsonOut = {}
    /\ storeOp = "none"
    /\ storeOps = 0
    /\ storeLoaded = 0
    /\ storeRaised = FALSE
    /\ storeCleared = FALSE
    /\ exPayload = ListPayload(<<>>)
    /\ exRides = <<>>
    /\ exPhase = "none"

\* The process ends with failure f
EndRun(f) ==
    /\ pc' = "done"
    /\ failure' = f
    /\ exitStatus' = ExitStatus(f)

\* start_auth(), then main() returns
StartAuthAndStop(run, f) ==
    /\ pkceFile' = save_pkce(pkceFile, generate_pkce_pair(run))
    /\ lastVerifier' = generate_pkce_pair(run)
    /\ EndRun(f)

\* main() up to its first network call
Invoke(cb) ==
    /\ pc = "idle"
    /\ runs < MaxRuns
    /\ runs' = runs + 1
    /\ callback' = cb
    /\ tokensAtStart' = tokensFile
    /\ pkceAtStart' = pkceFile
    /\ LET t == load_tokens(tokensFile)
           v == load_pkce(pkceFile)
       IN /\ access_token' = t.access_token
          /\ refresh_token' = t.refresh_token
          /\ IF StoredSession(t, cb)
             THEN /\ pc' = "refresh"
                  /\ UNCHANGED <<pkceFile, lastVerifier, code_verifier,
                                 exitStatus, failure>>
             ELSE IF cb # "none"
             THEN IF NoPending(v)
                  THEN /\ EndRun("NoPendingSession")
                       /\ UNCHANGED <<pkceFile, lastVerifier, code_verifier>>
                  ELSE IF ~HasCode(cb)
                  THEN /\ EndRun("MissingAuthCode")
                       /\ code_verifier' = v
                       /\ UNCHANGED <<pkceFile, lastVerifier>>
                  ELSE /\ pc' = "exchange"
                       /\ code_verifier' = v
                       /\ UNCHANGED <<pkceFile, lastVerifier, exitStatus,
                                      failure>>
             ELSE /\ StartAuthAndStop(runs + 1, "none")
                  /\ UNCHANGED code_verifier
    /\ UNCHANGED <<tokensFile, page, working_endpoint, cand, all_rides, log,
                   csvFile, jsonFile>>
    /\ UNCHANGED proxyVars
    /\ UNCHANGED <<exportVars, storeVars, extractVars>>

\* fetch_and_export() is entered: fetch_all_rides() starts at page 1
EnterFetch ==
    /\ pc' = "fetch"
    /\ page' = 1
    /\ working_endpoint' = 0
    /\ cand' = 1
    /\ all_rides' = <<>>
    /\ UNCHANGED <<exitStatus, failure, csvFile, jsonFile>>

\* authenticate_with_refresh_token() and the rest of the first branch of main()
RefreshResponse ==
    /\ pc = "refresh"
    /\ \E resp \in TokenResponses(runs) :
        LET new_access == IF resp.st # 200 THEN 0 ELSE resp.acc
            new_refresh == IF resp.st # 200 THEN 0 ELSE resp.ref
            kept == IF new_refresh # 0 THEN new_refresh ELSE refresh_token
        IN IF resp.fault
           THEN /\ log' = Append(log, EvRefresh(resp, refresh_token))
                /\ EndRun("NetworkFault")
                /\ UNCHANGED <<tokensFile, pkceFile, lastVerifier,
                               access_token, refresh_token, page,
                               working_endpoint, cand, all_rides, csvFile,
                               jsonFile>>
           ELSE IF RefreshOk(new_access)
           THEN /\ access_token' = new_access
                /\ refresh_token' = kept
                /\ tokensFile' = save_tokens(tokensFile, new_access, kept)
                /\ log' = log \o <<EvRefresh(resp, refresh_token),
                                   EvSave(new_access, kept)>>
                /\ EnterFetch
                /\ UNCHANGED <<pkceFile, lastVerifier>>
           ELSE /\ log' = Append(log, EvRefresh(resp, refresh_token))
                /\ StartAuthAndStop(runs, "RefreshFailed")
                /\ UNCHANGED <<tokensFile, access_token, refresh_token, page,
                               working_endpoint, cand, all_rides, csvFile,
                               jsonFile>>
    /\ UNCHANGED <<runs, callback, code_verifier, tokensAtStart, pkceAtStart>>
    /\ UNCHANGED proxyVars
    /\ UNCHANGED <<exportVars, storeVars, extractVars>>

\* complete_auth() from its POST on, and the rest of the second branch of main()
ExchangeResponse ==
    /\ pc = "exchange"
    /\ \E resp \in TokenResponses(runs) :
        /\ log' = IF ~resp.fault /\ resp.st = 200 /\ SaveAfterLogin(resp.ref)
                  THEN log \o <<EvCode(resp, code_verifier),
                                EvSave(resp.acc, resp.ref)>>
                  ELSE Append(log, EvCode(resp, code_verifier))
        /\ IF resp.fault
           THEN /\ EndRun("NetworkFault")
                /\ UNCHANGED <<tokensFile, pkceFile, access_token,
                               refresh_token, page, working_endpoint, cand,
                               all_rides, csvFile, jsonFile>>
           ELSE /\ pkceFile' = clear_pkce(pkceFile)
                /\ IF resp.st # 200
                   THEN /\ EndRun("TokenExchangeFailed")
                        /\ UNCHANGED <<tokensFile, access_token,
                                       refresh_token, page, working_endpoint,
                                       cand, all_rides, csvFile, jsonFile>>
                   ELSE /\ access_token' = resp.acc
                        /\ refresh_token' = resp.ref
                        /\ tokensFile' =
                             IF SaveAfterLogin(resp.ref)
                             THEN save_tokens(tokensFile, resp.acc, resp.ref)
                             ELSE tokensFile
                        /\ EnterFetch
    /\ UNCHANGED <<runs, callback, code_verifier, lastVerifier,
                   tokensAtStart, pkceAtStart>>
    /\ UNCHANGED proxyVars
    /\ UNCHANGED <<exportVars, storeVars, extractVars>>

\* fetch_all_rides() returns rides; fetch_and_export() writes the files and
\* main() returns
FinishFetch(rides, f) ==
    /\ all_rides' = rides
    /\ csvFile' = IF HasRides(rides) THEN {Len(rides)} ELSE {}
    /\ jsonFile' = IF HasRides(rides) THEN {rides} ELSE {}
    /\ EndRun(f)
    /\ UNCHANGED <<page, cand>>

\* The body of the loop of fetch_all_rides() once get_ride_history()
\* returned the payload data
HandlePage(data) ==
    LET rides == ExtractRides(data)
    IN IF data.top = "null" \/ rides = <<>>
       THEN FinishFetch(all_rides, "none")
       ELSE IF MorePages(rides)
       THEN /\ all_rides' = all_rides \o rides
            /\ page' = page + 1
            /\ cand' = 1
            /\ UNCHANGED <<pc, exitStatus, failure, csvFile, jsonFile>>
       ELSE FinishFetch(all_rides \o rides, "none")

\* get_ride_history() without a working endpoint: one turn of the loop over
\* API_ENDPOINTS
ProbeEndpoint ==
    /\ pc = "fetch"
    /\ working_endpoint = 0
    /\ \E o \in GetOutcomes(page) :
        /\ log' = Append(log, EvGet(cand, page, FALSE, o))
        /\ IF ProbeSucceeds(o)
           THEN /\ working_endpoint' = PinnedAfter(cand)
                /\ HandlePage(o.body)
           ELSE IF cand < NumEndpoints
           THEN /\ cand' = cand + 1
                /\ UNCHANGED <<working_endpoint, page, all_rides, pc,
                               exitStatus, failure, csvFile, jsonFile>>
           ELSE /\ working_endpoint' = 0
                /\ FinishFetch(PartialResult(all_rides), "NoWorkingEndpoint")
    /\ UNCHANGED <<tokensFile, pkceFile, runs, callback, access_token,
                   refresh_token, code_verifier, lastVerifier,
                   tokensAtStart, pkceAtStart>>
    /\ UNCHANGED proxyVars
    /\ UNCHANGED <<exportVars, storeVars, extractVars>>

\* get_ride_history() with a working endpoint
PinnedGet ==
    /\ pc = "fetch"
    /\ working_endpoint # 0
    /\ \E o \in GetOutcomes(page) :
        /\ log' = Append(log, EvGet(working_endpoint, page, TRUE, o))
        /\ IF o.fault
           THEN /\ EndRun("NetworkFault")
                /\ UNCHANGED <<working_endpoint, page, cand, all_rides,
                               csvFile, jsonFile>>
           ELSE IF o.st = 401
           THEN /\ working_endpoint' = 0
                /\ FinishFetch(PartialResult(all_rides), "AuthExpired")
           ELSE IF o.st # 200
           THEN /\ working_endpoint' = 0
                /\ FinishFetch(PartialResult(all_rides), "ApiError")
           ELSE /\ working_endpoint' = PinnedAfter(working_endpoint)
                /\ HandlePage(o.body)
    /\ UNCHANGED <<tokensFile, pkceFile, runs, callback, access_token,
                   refresh_token, code_verifier, lastVerifier,
                   tokensAtStart, pkceAtStart>>
    /\ UNCHANGED proxyVars
    /\ UNCHANGED <<exportVars, storeVars, extractVars>>

\* The process is gone; the files stay
ProcessExit ==
    /\ pc = "done"
    /\ pc' = "idle"
    /\ callback' = "none"
    /\ access_token' = 0
    /\ refresh_token' = 0
    /\ code_verifier' = 0
    /\ page' = 1
    /\ working_endpoint' = 0
    /\ cand' = 1
    /\ all_rides' = <<>>
    /\ log' = <<>>
    /\ exitStatus' = -1
    /\ failure' = "none"
    /\ csvFile' = {}
    /\ jsonFile' = {}
    /\ tokensAtStart' = {}
    /\ pkceAtStart' = {}
    /\ UNCHANGED <<tokensFile, pkceFile, runs, lastVerifier>>
    /\ UNCHANGED proxyVars
    /\ UNCHANGED <<exportVars, storeVars, extractVars>>

Next ==
    \/ \E cb \in {"none", "nocode", "code"} : Invoke(cb)
    \/ RefreshResponse
    \/ ExchangeResponse
    \/ ProbeEndpoint
    \/ PinnedGet
    \/ ProcessExit

Spec == Init /\ [][Next]_vars

\* ------------------------------------------------------------------------
\* The development proxy: ProxyHandler.proxy_rides_request
\* ------------------------------------------------------------------------
\* The endpoints list of proxy_rides_request, by position
ProxyEndpoints == {1, 2}

Queries == {1, 2, 3}

UpstreamBodies == {1, 2, 3}

\* What urlopen does: returns a body, raises HTTPError(code), or raises
\* another exception (URLError, timeout)
UrlopenOutcomes ==
    {[kind |-> "ok", code |-> 200, body |-> b] : b \in UpstreamBodies}
    \cup {[kind |-> "http", code |-> c, body |-> 0] : c \in {401, 404, 500}}
    \cup {[kind |-> "fault", code |-> 0, body |-> 0]}

\* self.wfile.write(data)
RawBody(data) == [kind |-> "raw", val |-> data]

\* json.dumps({'error': ...})
ErrorBody(what) == [kind |-> "error", val |-> what]

ReraiseNever(code) == FALSE

\* if e.code == 401: raise
Reraise(code) == code = 401

\* One upstream call of the proxy: the endpoint, the query string forwarded
\* and what urlopen did
ProxyCall(ep, q, o) ==
    [ep |-> ep, query |-> q, kind |-> o.kind, code |-> o.code,
     body |-> o.body]

ProxyReply(st, body) ==
    /\ ppc' = "replied"
    /\ pstatus' = st
    /\ pbody' = body
    /\ UNCHANGED pidx

\* do_GET on a path starting with /api/rides
ReceiveRides(q) ==
    /\ ppc = "idle"
    /\ served < MaxRequests
    /\ served' = served + 1
    /\ ppc' = "trying"
    /\ pquery' = q
    /\ pidx' = 1
    /\ pcalls' = <<>>
    /\ pstatus' = 0
    /\ pbody' = [kind |-> "none", val |-> 0]
    /\ UNCHANGED cliVars
    /\ UNCHANGED <<exportVars, storeVars, extractVars>>

\* One turn of the loop over endpoints, and what follows it when it ends
ContactEndpoint ==
    /\ ppc = "trying"
    /\ \E o \in UrlopenOutcomes :
        /\ pcalls' = Append(pcalls, ProxyCall(pidx, pquery, o))
        /\ IF o.kind = "ok"
           THEN ProxyReply(200, RawBody(o.body))
           ELSE IF o.kind = "http" /\ Reraise(o.code)
           THEN ProxyReply(o.code, ErrorBody(o.code))
           ELSE IF o.kind = "http"
           THEN IF pidx < Cardinality(ProxyEndpoints)
                THEN /\ pidx' = pidx + 1
                     /\ UNCHANGED <<ppc, pstatus, pbody>>
                ELSE ProxyReply(502, ErrorBody(502))
           ELSE ProxyReply(500, ErrorBody(0))
    /\ UNCHANGED <<pquery, served>>
    /\ UNCHANGED cliVars
    /\ UNCHANGED <<exportVars, storeVars, extractVars>>

\* The reply is written; the handler returns
CloseRequest ==
    /\ ppc = "replied"
    /\ ppc' = "idle"
    /\ pquery' = 0
    /\ pidx' = 1
    /\ pcalls' = <<>>
    /\ pstatus' = 0
    /\ pbody' = [kind |-> "none", val |-> 0]
    /\ UNCHANGED served
    /\ UNCHANGED cliVars
    /\ UNCHANGED <<exportVars, storeVars, extractVars>>

NextProxy ==
    \/ \E q \in Queries : ReceiveRides(q)
    \/ ContactEndpoint
    \/ CloseRequest

SpecProxy == Init /\ [][NextProxy]_vars

\* ------------------------------------------------------------------------
\* Vocabulary of the properties
\* ------------------------------------------------------------------------
\* The ride-API requests of this run, in the order they were issued
Gets == SelectSeq(log, LAMBDA e : e.ev = "GET")

\* Those that were answered 200
OkGets == SelectSeq(log, LAMBDA e : e.ev = "GET" /\ e.st = 200)

RECURSIVE ConcatPages(_)
\* The rides the upstream sent in the answers g, page after page
ConcatPages(g) ==
    IF g = <<>> THEN <<>>
    ELSE ConcatPages(SubSeq(g, 1, Len(g) - 1))
         \o PageRides(g[Len(g)].page, g[Len(g)].n)

PageSizesOf(g) == [i \in 1..Len(g) |-> g[i].n]

InRun == pc # "idle"

\* ------------------------------------------------------------------------
\* C1: when every fetch succeeds, fetch_all_rides requests pages 1, 2, 3,
\* ... in increasing order, requests nothing after the first page that is
\* empty or shorter than 100 rides, and returns the concatenation of the
\* fetched pages in page order, within-page order kept: page sizes
\* [100,100,37] give 237 records after 3 pages, [100,100,0] give 200 after
\* 3 pages, [5] gives 5 after 1 page.
\* ------------------------------------------------------------------------
C1_PaginationTermination ==
    LET g == Gets
    IN (\A i \in 1..Len(g) : g[i].st = 200) =>
        /\ \A i \in 1..Len(g) : g[i].page = i
        /\ \A i \in 1..(Len(g) - 1) : g[i].n >= PAGE_SIZE
        /\ pc = "fetch" => /\ all_rides = ConcatPages(g)
                           /\ page = Len(g) + 1
        /\ (pc = "done" /\ Len(g) > 0) =>
              /\ g[Len(g)].n < PAGE_SIZE
              /\ all_rides = ConcatPages(g)
              /\ PageSizesOf(g) = <<100, 100, 37>> => Len(all_rides) = 237
              /\ PageSizesOf(g) = <<100, 100, 0>> => Len(all_rides) = 200
              /\ PageSizesOf(g) = <<5>> => Len(all_rides) = 5

C1_Witness ==
    /\ pc = "done"
    /\ PageSizesOf(Gets) = <<100, 100, 37>>
    /\ \A i \in 1..3 : Gets[i].st = 200
    /\ Len(all_rides) = 237
    /\ all_rides[101] = <<2, 1>>

\* ------------------------------------------------------------------------
\* C2 as stated: a 401 from the ride API on any page, page 1 included, is
\* followed by no further ride-API request and fetch_all_rides returns
\* exactly the records of the pages before it.
\* ------------------------------------------------------------------------
C2_Original ==
    \A i \in 1..Len(log) :
        (log[i].ev = "GET" /\ log[i].st = 401) =>
            /\ \A j \in (i + 1)..Len(log) : log[j].ev # "GET"
            /\ pc = "done"
            /\ all_rides = ConcatPages(OkGets)

\* C2 as amended: a 401 from the pinned endpoint, that is on any page after
\* page 1, ends pagination at once: it is the last request of the run and
\* fetch_all_rides returns exactly the records of the pages before it,
\* which are also what is exported.  On page 1 no endpoint is pinned and a
\* 401 from a candidate that is not the last one is followed by a request
\* for the same page to the next candidate.
C2_AuthExpiredKeepsPartial ==
    \A i \in 1..Len(log) :
        (log[i].ev = "GET" /\ log[i].st = 401) =>
            IF log[i].pin
            THEN /\ i = Len(log)
                 /\ log[i].page > 1
                 /\ pc = "done"
                 /\ failure = "AuthExpired"
                 /\ all_rides = ConcatPages(OkGets)
                 /\ all_rides # <<>>
                 /\ jsonFile = {all_rides}
            ELSE /\ log[i].page = 1
                 /\ log[i].ep < NumEndpoints =>
                      \/ i = Len(log) /\ pc = "fetch" /\ cand = log[i].ep + 1
                      \/ /\ i < Len(log)
                         /\ log[i + 1].ev = "GET"
                         /\ log[i + 1].ep = log[i].ep + 1
                         /\ log[i + 1].page = 1

C2_Witness ==
    /\ pc = "done"
    /\ Len(Gets) = 3
    /\ Gets[3].st = 401
    /\ Gets[3].pin
    /\ Len(all_rides) = 200

\* ------------------------------------------------------------------------
\* C3: once the first candidate failed and the second answered 200 on page
\* 1, every request for page 2 and later goes to the second candidate only,
\* the first candidate is never contacted again, and the pinned endpoint
\* does not change while the session goes on.
\* ------------------------------------------------------------------------
C3_EndpointPinning ==
    /\ [](LET g == Gets
          IN (/\ Len(g) >= 2
              /\ g[1].ep = 1 /\ g[1].page = 1 /\ g[1].st # 200
              /\ g[2].ep = 2 /\ g[2].page = 1 /\ g[2].st = 200) =>
                 /\ \A i \in 3..Len(g) : g[i].ep = 2 /\ g[i].page >= 2
                                         /\ g[i].pin
                 /\ pc = "fetch" => working_endpoint = 2)
    /\ [][(working_endpoint # 0 /\ pc' = "fetch") =>
             working_endpoint' = working_endpoint]_vars

C3_Witness ==
    LET g == Gets
    IN /\ Len(g) = 4
       /\ g[1].ep = 1 /\ g[1].st # 200
       /\ g[2].ep = 2 /\ g[2].st = 200
       /\ g[3].ep = 2 /\ g[3].page = 2
       /\ g[4].ep = 2 /\ g[4].page = 3

\* ------------------------------------------------------------------------
\* C4 as stated: in a run with a callback URL, every 200 answer of the token
\* endpoint is followed by a save of the answered pair, replacing whatever
\* was stored, before any ride-history request.
\* ------------------------------------------------------------------------
C4_Original ==
    \A i \in 1..Len(log) :
        (log[i].ev = "POST_code" /\ log[i].st = 200) =>
            /\ Len(log) > i
            /\ log[i + 1] = EvSave(log[i].acc, log[i].ref)
            /\ tokensFile = {TokenPair(log[i].acc, log[i].ref)}

\* C4 as amended: in a run with a callback URL, a 200 answer of the token
\* endpoint that carries a refresh token is followed by a save of the
\* answered pair, replacing whatever was stored, before any ride-history
\* request; a 200 answer without a refresh token writes nothing, the stored
\* pair stays as it was, and the ride fetch follows all the same.
C4_LoginPersistsBeforeFetch ==
    \A i \in 1..Len(log) :
        (log[i].ev = "POST_code" /\ log[i].st = 200) =>
            /\ callback = "code"
            /\ i = 1
            /\ pc \in {"fetch", "done"}
            /\ IF log[i].ref # 0
               THEN /\ Len(log) > i
                    /\ log[i + 1] = EvSave(log[i].acc, log[i].ref)
                    /\ tokensFile = {TokenPair(log[i].acc, log[i].ref)}
               ELSE /\ tokensFile = tokensAtStart
                    /\ \A j \in 1..Len(log) : log[j].ev # "save_tokens"

C4_Witness ==
    /\ Len(log) >= 3
    /\ log[1].ev = "POST_code" /\ log[1].st = 200 /\ log[1].ref # 0
    /\ log[2].ev = "save_tokens"
    /\ log[3].ev = "GET"
    /\ tokensAtStart # {}
    /\ tokensFile # tokensAtStart
    /\ tokensFile = {TokenPair(log[1].acc, log[1].ref)}

\* ------------------------------------------------------------------------
\* C5 as stated: in a run with stored tokens and no callback URL a refresh
\* is attempted first; a 200 answer makes the run persist the new tokens
\* and go on to the ride fetch with no login begun; a non-200 answer makes
\* it begin a login and stop, with no ride-history request and no
\* authorization-code exchange.
\* ------------------------------------------------------------------------
RefreshFirst ==
    \/ pc = "refresh" /\ log = <<>>
    \/ Len(log) >= 1 /\ log[1].ev = "POST_refresh"

RefreshedAndFetching ==
    /\ Len(log) >= 2
    /\ log[2].ev = "save_tokens"
    /\ log[2].acc = log[1].acc
    /\ log[2].ref = (IF log[1].ref # 0 THEN log[1].ref
                     ELSE load_tokens(tokensAtStart).refresh_token)
    /\ tokensFile = {TokenPair(log[2].acc, log[2].ref)}
    /\ pc \in {"fetch", "done"}
    /\ pkceFile = pkceAtStart
    /\ lastVerifier # runs
    /\ \A j \in 3..Len(log) : log[j].ev = "GET"

FellThroughToLogin ==
    /\ Len(log) = 1
    /\ pc = "done"
    /\ failure = "RefreshFailed"
    /\ exitStatus = 0
    /\ tokensFile = tokensAtStart
    /\ lastVerifier = runs
    /\ pkceFile = {lastVerifier}

C5_Original ==
    (InRun /\ callback = "none" /\ tokensAtStart # {}) =>
        /\ RefreshFirst
        /\ (Len(log) >= 1 /\ log[1].st = 200) => RefreshedAndFetching
        /\ (Len(log) >= 1 /\ log[1].st \notin {0, 200}) => FellThroughToLogin

\* C5 as amended: in a run with no callback URL and a stored pair whose
\* access token and refresh token are both non-empty, a refresh is attempted
\* first; a 200 answer that carries an access token makes the run persist
\* the new tokens and go on to the ride fetch with no login begun; a non-200
\* answer, or a 200 answer without an access token, makes it begin a login
\* and stop, with no ride-history request and no authorization-code
\* exchange.  A stored pair with an empty access token is no stored session:
\* the run begins a login without any refresh.
C5_DecisionTable ==
    (InRun /\ callback = "none") =>
        IF /\ tokensAtStart # {}
           /\ load_tokens(tokensAtStart).access_token # 0
           /\ load_tokens(tokensAtStart).refresh_token # 0
        THEN /\ RefreshFirst
             /\ (Len(log) >= 1 /\ log[1].st = 200 /\ log[1].acc # 0) =>
                   RefreshedAndFetching
             /\ (Len(log) >= 1 /\ (log[1].st \notin {0, 200}
                                   \/ (log[1].st = 200 /\ log[1].acc = 0))) =>
                   FellThroughToLogin
        ELSE /\ log = <<>>
             /\ pc = "done"
             /\ lastVerifier = runs
             /\ tokensFile = tokensAtStart

C5_Witness ==
    /\ callback = "none"
    /\ tokensAtStart # {}
    /\ Len(log) = 1
    /\ log[1].ev = "POST_refresh"
    /\ log[1].st = 401
    /\ FellThroughToLogin

\* ------------------------------------------------------------------------
\* C6: complete_auth needs a pending login.  With no stored verifier the
\* run fails with NoPendingSession, and with a callback URL that has no code
\* it fails with MissingAuthCode; in both cases no token POST is sent, no
\* token pair is written and no ride-history request is issued.  A token
\* exchange is only ever sent with a stored verifier and a callback URL that
\* carries a code.
\* ------------------------------------------------------------------------
C6_CompleteNeedsPending ==
    /\ (InRun /\ callback # "none" /\ pkceAtStart = {}) =>
          /\ pc = "done"
          /\ failure = "NoPendingSession"
          /\ log = <<>>
          /\ tokensFile = tokensAtStart
    /\ (InRun /\ callback = "nocode" /\ pkceAtStart # {}) =>
          /\ pc = "done"
          /\ failure = "MissingAuthCode"
          /\ log = <<>>
          /\ tokensFile = tokensAtStart
    /\ \A i \in 1..Len(log) :
          log[i].ev = "POST_code" =>
              /\ callback = "code"
              /\ pkceAtStart # {}
              /\ log[i].ver \in pkceAtStart
              /\ log[i].ver # 0
    /\ pc = "exchange" => callback = "code" /\ pkceAtStart = {code_verifier}

C6_Witness ==
    /\ pc = "done"
    /\ callback = "nocode"
    /\ pkceAtStart # {}
    /\ tokensAtStart # {}
    /\ failure = "MissingAuthCode"

\* ------------------------------------------------------------------------
\* C7: a token exchange consumes the pending verifier.  Once the token
\* endpoint answered a complete_auth, with 200 or any other status, the
\* stored verifier is absent; the files outlive the process as they are;
\* and a run with a callback URL that finds no verifier fails with
\* NoPendingSession, so a second complete_auth with no start_auth in
\* between cannot succeed.
\* ------------------------------------------------------------------------
ExchangeAnswered ==
    \E i \in 1..Len(log) : log[i].ev = "POST_code" /\ log[i].st # 0

C7_VerifierConsumed ==
    /\ [](ExchangeAnswered => pkceFile = {})
    /\ [][pc = "done" => pkceFile' = pkceFile]_vars
    /\ [][(pc = "idle" /\ pkceFile = {} /\ callback' # "none") =>
             (pc' = "done" /\ failure' = "NoPendingSession"
              /\ log' = <<>>)]_vars

C7_Witness ==
    /\ pc = "done"
    /\ failure = "TokenExchangeFailed"
    /\ pkceAtStart # {}
    /\ pkceFile = {}

\* ------------------------------------------------------------------------
\* C8 as stated: in every reachable state of the credential store exactly
\* one token pair exists and at most one pending verifier exists.
\* ------------------------------------------------------------------------
C8_Original ==
    /\ Cardinality(tokensFile) = 1
    /\ Cardinality(pkceFile) <= 1

\* C8 as amended: in every reachable state of the credential store at most
\* one token pair exists (none until a login or refresh has been saved) and
\* at most one pending verifier exists; start_auth replaces any pending
\* verifier by the new one, so the stored verifier, and the verifier of
\* every token exchange, is that of the most recent start_auth.
C8_CredentialStore ==
    /\ Cardinality(tokensFile) <= 1
    /\ Cardinality(pkceFile) <= 1
    /\ pkceFile \subseteq {lastVerifier}
    /\ 0 \notin pkceFile
    /\ \A i \in 1..Len(log) :
          log[i].ev = "POST_code" => log[i].ver = lastVerifier
    /\ pc = "exchange" => code_verifier = lastVerifier

C8_Witness ==
    /\ pc = "done"
    /\ pkceAtStart # {}
    /\ lastVerifier = runs
    /\ pkceFile = {runs}
    /\ pkceFile # pkceAtStart
    /\ Cardinality(tokensFile) = 1

\* ------------------------------------------------------------------------
\* C9 as stated: every run in which NoPendingSession, MissingAuthCode,
\* TokenExchangeFailed, AuthExpired, ApiError or NoWorkingEndpoint occurs
\* ends with a non-zero exit status.
\* ------------------------------------------------------------------------
C9_Original ==
    (pc = "done" /\ failure \in {"NoPendingSession", "MissingAuthCode",
                                 "TokenExchangeFailed", "AuthExpired",
                                 "ApiError", "NoWorkingEndpoint"}) =>
        exitStatus # 0

\* C9 as amended: a run in which NoPendingSession, MissingAuthCode or
\* TokenExchangeFailed occurs ends with a non-zero exit status.  A run in
\* which AuthExpired, ApiError or NoWorkingEndpoint occurs reports it, ends
\* the fetch with the rides gathered so far and ends with exit status 0,
\* as does a run whose refresh failed.  None of these failures is retried:
\* the failed call is the last call of the run, no page is requested twice
\* from one endpoint, and NoWorkingEndpoint follows one request to each
\* candidate.
C9_FailuresAndExitStatus ==
    /\ pc = "done" <=> exitStatus # -1
    /\ pc = "done" =>
        /\ failure \in {"NoPendingSession", "MissingAuthCode",
                        "TokenExchangeFailed"} => exitStatus = 1
        /\ failure \in {"AuthExpired", "ApiError", "NoWorkingEndpoint",
                        "RefreshFailed"} => exitStatus = 0
        /\ failure = "TokenExchangeFailed" =>
              /\ Len(log) = 1
              /\ log[1].ev = "POST_code" /\ log[1].st \notin {0, 200}
        /\ failure = "RefreshFailed" =>
              /\ Len(log) = 1
              /\ log[1].ev = "POST_refresh" /\ log[1].st # 0
        /\ failure \in {"AuthExpired", "ApiError"} =>
              /\ log[Len(log)].ev = "GET" /\ log[Len(log)].pin
              /\ log[Len(log)].st \notin {0, 200}
              /\ (failure = "AuthExpired") <=> (log[Len(log)].st = 401)
        /\ failure = "NoWorkingEndpoint" =>
              /\ Len(Gets) = NumEndpoints
              /\ \A i \in 1..NumEndpoints :
                    Gets[i].ep = i /\ Gets[i].page = 1 /\ Gets[i].st # 200
        /\ failure \in {"NoPendingSession", "MissingAuthCode"} => log = <<>>
    /\ \A i, j \in 1..Len(Gets) :
          (Gets[i].ep = Gets[j].ep /\ Gets[i].page = Gets[j].page) => i = j

C9_Witness ==
    /\ pc = "done"
    /\ failure = "ApiError"
    /\ exitStatus = 0
    /\ Len(all_rides) = 100

\* ------------------------------------------------------------------------
\* C10: the proxy's GET /api/rides contacts the candidate endpoints in the
\* fixed order, each with the incoming query string, and short-circuits: a
\* candidate that answers 200 has its body returned verbatim with status
\* 200 and no later candidate is contacted; a candidate that answers 401
\* makes the proxy reply 401 at once and no later candidate is contacted.
\* ------------------------------------------------------------------------
C10_ProxyShortCircuit ==
    \A i \in 1..Len(pcalls) :
        /\ pcalls[i].ep = i
        /\ pcalls[i].query = pquery
        /\ pcalls[i].kind = "ok" =>
              /\ i = Len(pcalls)
              /\ ppc = "replied"
              /\ pstatus = 200
              /\ pbody = [kind |-> "raw", val |-> pcalls[i].body]
        /\ (pcalls[i].kind = "http" /\ pcalls[i].code = 401) =>
              /\ i = Len(pcalls)
              /\ ppc = "replied"
              /\ pstatus = 401

C10_Witness ==
    /\ ppc = "replied"
    /\ Len(pcalls) = 1
    /\ pcalls[1].kind = "ok"
    /\ pstatus = 200
    /\ pbody.val = pcalls[1].body

C10_Witness401 ==
    /\ ppc = "replied"
    /\ Len(pcalls) = 1
    /\ pcalls[1].code = 401
    /\ pstatus = 401

\* ------------------------------------------------------------------------
\* C11: when every candidate endpoint of the proxy's GET /api/rides fails
\* with a non-401 error, an HTTP error status or a connection or timeout
\* fault alike, all candidates have been tried in order and the reply is
\* 502; a non-401 failure of an earlier candidate never keeps a later
\* candidate from being tried.
\* ------------------------------------------------------------------------
FailedNon401(c) ==
    \/ c.kind = "fault"
    \/ c.kind = "http" /\ c.code # 401

C11_ProxyTriesAllCandidates ==
    /\ \A i \in 1..Len(pcalls) :
          (FailedNon401(pcalls[i]) /\ i < Cardinality(ProxyEndpoints)) =>
              \/ i = Len(pcalls) /\ ppc = "trying" /\ pidx = i + 1
              \/ i < Len(pcalls) /\ pcalls[i + 1].ep = i + 1
    /\ (ppc = "replied" /\ \A i \in 1..Len(pcalls) : FailedNon401(pcalls[i])) =>
          /\ Len(pcalls) = Cardinality(ProxyEndpoints)
          /\ \A i \in 1..Len(pcalls) : pcalls[i].ep = i
          /\ pstatus = 502
          /\ pbody = ErrorBody(502)

\* ------------------------------------------------------------------------
\* The exporter: export_to_csv and fetch_and_export
\* ------------------------------------------------------------------------
MaxRecords == 2

\* The fieldnames list of export_to_csv, in its order
fieldnames ==
    <<"rideIntegerId", "rideId", "state", "status", "rideRequestedAt",
      "rideStartedAt", "rideCompletedAt", "timestamp",
      "pickupLocationName", "pickupLocationLatitude",
      "pickupLocationLongitude", "pickupLocationTimezone",
      "dropoffLocationName", "dropoffLocationLatitude",
      "dropoffLocationLongitude", "dropoffLocationTimezone",
      "dropoffLocationAddressId", "totalDistanceMiles",
      "driveDistanceMiles", "billedDistanceMiles", "totalDurationSeconds",
      "driveDurationSeconds", "totalDue", "totalDueTaxExcl",
      "estimatedPrice", "estimatedPriceCurrencyCode", "currencyCode",
      "rideFeeStatus", "rideFeeProcessFlag", "hasAdhocFee", "vin",
      "licensePlate", "vehicleModel", "countryCode", "priceBookGuid",
      "quoteId", "txid", "route", "routeImageUrl", "rideEta",
      "fleetCongestionPercent", "isValid", "invalidReason",
      "billOverrideReason", "disputeReason", "disputeComment",
      "billingUserId", "billingUserUuid", "billingUserAddressId",
      "riderSsoId">>

\* A JSON value of a ride record: a number, a string or null
NumVal(n) == [t |-> "num", n |-> n, s |-> ""]

StrVal(s) == [t |-> "str", n |-> 0, s |-> s]

NullVal == [t |-> "null", n |-> 0, s |-> ""]

\* What csv.DictWriter writes for a value: '' for None, str(value) otherwise
CsvCell(v) ==
    IF v.t = "null" THEN ""
    ELSE IF v.t = "num" THEN ToString(v.n)
    ELSE v.s

RideGetMissingAsNone(ride, field) ==
    IF field \in DOMAIN ride THEN ride[field] ELSE StrVal("None")

\* ride.get(field, '')
RideGet(ride, field) ==
    IF field \in DOMAIN ride THEN ride[field] ELSE StrVal("")

\* row = {field: ride.get(field, '') for field in fieldnames}, written by
\* a DictWriter over fieldnames with extrasaction='ignore'
CsvRow(ride) ==
    [c \in 1..Len(fieldnames) |-> CsvCell(RideGet(ride, fieldnames[c]))]

ExportSkipsNever(rides) == FALSE

\* if not rides: return
ExportSkips(rides) == rides = <<>>

\* The file export_to_csv leaves behind: none, or a header and the rows
export_to_csv(rides) ==
    IF ExportSkips(rides) THEN {}
    ELSE {[header |-> fieldnames,
           rows |-> [i \in 1..Len(rides) |-> CsvRow(rides[i])]]}

\* The fields a ride of the upstream may carry: three of the known ones
\* and one that is not in fieldnames
RideFields == {"rideIntegerId", "state", "riderSsoId", "tipAmount"}

SampleValue(field) ==
    IF field = "state" THEN StrVal("COMPLETED")
    ELSE IF field = "riderSsoId" THEN StrVal("sso-1")
    ELSE IF field = "tipAmount" THEN StrVal("9.99")
    ELSE NumVal(7)

\* The ride records the upstream may send
RideRecords ==
    UNION {{[f \in S |-> IF f = "rideIntegerId" THEN v ELSE SampleValue(f)] :
              v \in {NumVal(7), NullVal}} : S \in SUBSET RideFields}

\* fetch_all_rides returned one more ride
CsvAppendRecord(r) ==
    /\ csvOp = "none"
    /\ Len(csvRecords) < MaxRecords
    /\ csvRecords' = Append(csvRecords, r)
    /\ UNCHANGED <<csvOp, csvOut, jsonOut>>
    /\ UNCHANGED <<cliVars, proxyVars, storeVars, extractVars>>

\* export_to_csv(rides, filename)
CsvExport ==
    /\ csvOp = "none"
    /\ csvOp' = "export_to_csv"
    /\ csvOut' = export_to_csv(csvRecords)
    /\ UNCHANGED <<csvRecords, jsonOut>>
    /\ UNCHANGED <<cliVars, proxyVars, storeVars, extractVars>>

\* fetch_and_export() once fetch_all_rides() returned rides
CsvFetchAndExport ==
    /\ csvOp = "none"
    /\ csvOp' = "fetch_and_export"
    /\ IF HasRides(csvRecords)
       THEN /\ csvOut' = export_to_csv(csvRecords)
            /\ jsonOut' = {csvRecords}
       ELSE /\ csvOut' = {}
            /\ jsonOut' = {}
    /\ UNCHANGED csvRecords
    /\ UNCHANGED <<cliVars, proxyVars, storeVars, extractVars>>

NextExport ==
    \/ \E r \in RideRecords : CsvAppendRecord(r)
    \/ CsvExport
    \/ CsvFetchAndExport

SpecExport == Init /\ [][NextExport]_vars

\* ------------------------------------------------------------------------
\* Vocabulary of the exporter's properties
\* ------------------------------------------------------------------------
Exported == csvOp # "none" /\ csvRecords # <<>>

KnownFields == {fieldnames[c] : c \in 1..Len(fieldnames)}

PopulatedColumns(row) == {c \in 1..Len(row) : row[c] # ""}

EmptyColumns(row) == {c \in 1..Len(row) : row[c] = ""}

\* The fields of a record that the header names and whose value is not null
FilledKnownFields(rec) ==
    {f \in DOMAIN rec \cap KnownFields : rec[f].t # "null"}

\* A file of ncols columns in the order of fieldnames, one row per record
\* in input order, every column holding the record's value for its field
\* or the empty string, and nothing from outside the header
CsvShape(file, ncols) ==
    /\ Len(file.header) = ncols
    /\ file.header = fieldnames
    /\ \A c, d \in 1..Len(file.header) :
          file.header[c] = file.header[d] => c = d
    /\ Len(file.rows) = Len(csvRecords)
    /\ \A i \in 1..Len(file.rows) :
          LET row == file.rows[i]
              rec == csvRecords[i]
          IN /\ Len(row) = ncols
             /\ \A c \in 1..Len(row) :
                   row[c] = (IF file.header[c] \in DOMAIN rec
                             THEN CsvCell(rec[file.header[c]])
                             ELSE "")
             /\ \A c \in 1..Len(row) :
                   \A f \in DOMAIN rec \ KnownFields :
                       rec[f].t = "null" \/ row[c] # CsvCell(rec[f])
             /\ Cardinality(PopulatedColumns(row))
                   = Cardinality(FilledKnownFields(rec))
             /\ Cardinality(FilledKnownFields(rec)) = 3 =>
                   Cardinality(EmptyColumns(row)) = ncols - 3

\* ------------------------------------------------------------------------
\* C12 as stated: the CSV file has a header of exactly 45 fixed columns,
\* then one row per record in input order; a column holds the record's
\* value for its field or the empty string, no field outside the header
\* appears, and a record with 3 known fields has 3 populated and 42 empty
\* columns.
\* ------------------------------------------------------------------------
C12_Original ==
    Exported => /\ Cardinality(csvOut) = 1
                /\ \A file \in csvOut : CsvShape(file, 45)

\* C12 as amended: the CSV file has a header of exactly 50 fixed columns in
\* the order of fieldnames, then one row per record in input order; a
\* column holds the record's value for its field as csv writes it (a null
\* value as the empty string) when the record has the field and the empty
\* string otherwise, no field outside the header appears anywhere in the
\* row, and a record with 3 known non-null fields has 3 populated and 47
\* empty columns.
C12_CsvExport ==
    Exported => /\ Cardinality(csvOut) = 1
                /\ \A file \in csvOut :
                      /\ CsvShape(file, 50)
                      /\ file.header[1] = "rideIntegerId"
                      /\ file.header[3] = "state"
                      /\ file.header[50] = "riderSsoId"

C12_Witness ==
    /\ csvOp = "export_to_csv"
    /\ Len(csvRecords) = 2
    /\ DOMAIN csvRecords[2] = RideFields
    /\ Cardinality(FilledKnownFields(csvRecords[2])) = 3
    /\ \E file \in csvOut :
          /\ PopulatedColumns(file.rows[2]) = {1, 3, 50}
          /\ Cardinality(EmptyColumns(file.rows[2])) = 47
          /\ file.rows[2][1] = "7"

\* ------------------------------------------------------------------------
\* C13: exporting an empty record list creates no file and raises nothing:
\* export_to_csv with no records returns without writing, and
\* fetch_and_export with no rides writes neither the CSV nor the JSON file
\* and returns; with records, the files are written.
\* ------------------------------------------------------------------------
C13_EmptyExportWritesNothing ==
    /\ (csvOp = "export_to_csv" /\ csvRecords = <<>>) =>
          csvOut = {} /\ jsonOut = {}
    /\ (csvOp = "fetch_and_export" /\ csvRecords = <<>>) =>
          csvOut = {} /\ jsonOut = {}
    /\ (csvOp = "export_to_csv" /\ csvRecords # <<>>) =>
          csvOut # {} /\ jsonOut = {}
    /\ (csvOp = "fetch_and_export" /\ csvRecords # <<>>) =>
          csvOut # {} /\ jsonOut = {csvRecords}

C13_Witness ==
    /\ csvOp = "export_to_csv"
    /\ csvRecords = <<>>
    /\ csvOut = {}

\* ------------------------------------------------------------------------
\* The PKCE credential store on its own: any sequence of start, load, clear
\* ------------------------------------------------------------------------
MaxStoreOps == 8

\* What open(PKCE_FILE, 'r') and os.remove(PKCE_FILE) raise
MissingFileError(file) ==
    IF file = {} THEN "FileNotFoundError" ELSE "none"

\* except (FileNotFoundError, json.JSONDecodeError): return None
load_pkce_catches(exc) == exc \in {"FileNotFoundError", "JSONDecodeError"}

clear_pkce_catches_nothing(exc) == FALSE

\* except FileNotFoundError: pass
clear_pkce_catches(exc) == exc = "FileNotFoundError"

\* generate_pkce_pair() and save_pkce() of start_auth()
StoreStart ==
    /\ storeOps < MaxStoreOps
    /\ storeOps' = storeOps + 1
    /\ storeOp' = "start"
    /\ pkceFile' = save_pkce(pkceFile, generate_pkce_pair(storeOps + 1))
    /\ lastVerifier' = generate_pkce_pair(storeOps + 1)
    /\ storeCleared' = FALSE
    /\ UNCHANGED <<storeLoaded, storeRaised>>
    /\ UNCHANGED <<tokensFile, runs, pc, callback, access_token,
                   refresh_token, code_verifier, page, working_endpoint,
                   cand, all_rides, log, exitStatus, failure, csvFile,
                   jsonFile, tokensAtStart, pkceAtStart>>
    /\ UNCHANGED <<proxyVars, exportVars, extractVars>>

\* load_pkce()
StoreLoad ==
    /\ storeOps < MaxStoreOps
    /\ storeOps' = storeOps + 1
    /\ storeOp' = "load"
    /\ LET exc == MissingFileError(pkceFile)
       IN /\ storeLoaded' = IF exc = "none" THEN load_pkce(pkceFile) ELSE 0
          /\ storeRaised' =
                (storeRaised \/ (exc # "none" /\ ~load_pkce_catches(exc)))
    /\ UNCHANGED storeCleared
    /\ UNCHANGED <<cliVars, proxyVars, exportVars, extractVars>>

\* clear_pkce()
StoreClear ==
    /\ storeOps < MaxStoreOps
    /\ storeOps' = storeOps + 1
    /\ storeOp' = "clear"
    /\ LET exc == MissingFileError(pkceFile)
       IN storeRaised' =
             (storeRaised \/ (exc # "none" /\ ~clear_pkce_catches(exc)))
    /\ pkceFile' = clear_pkce(pkceFile)
    /\ storeCleared' = TRUE
    /\ UNCHANGED storeLoaded
    /\ UNCHANGED <<tokensFile, runs, pc, callback, access_token,
                   refresh_token, code_verifier, page, working_endpoint,
                   cand, all_rides, log, exitStatus, failure, csvFile,
                   jsonFile, lastVerifier, tokensAtStart, pkceAtStart>>
    /\ UNCHANGED <<proxyVars, exportVars, extractVars>>

NextStore ==
    \/ StoreStart
    \/ StoreLoad
    \/ StoreClear

SpecStore == Init /\ [][NextStore]_vars

\* ------------------------------------------------------------------------
\* C14: for any sequence of start, load and clear, load never raises and
\* returns the verifier of the most recent start when no clear followed
\* it, and absent after a clear or when no start ever happened; clear is
\* idempotent: a second clear leaves the state of the first and does not
\* raise.
\* ------------------------------------------------------------------------
C14_StoreAlgebra ==
    /\ [](~storeRaised)
    /\ [](storeOp = "load" =>
             storeLoaded = (IF lastVerifier = 0 \/ storeCleared THEN 0
                            ELSE lastVerifier))
    /\ [](storeOp = "clear" => pkceFile = {})
    /\ [][(storeOp = "clear" /\ storeOp' = "clear") =>
             (pkceFile' = pkceFile /\ ~storeRaised')]_vars
    /\ [][storeOp' = "load" => pkceFile' = pkceFile]_vars

C14_Witness ==
    /\ storeOp = "load"
    /\ storeOps = 4
    /\ lastVerifier = 2
    /\ storeLoaded = 2
    /\ ~storeCleared
    /\ ~storeRaised

C14_WitnessClearTwice ==
    /\ storeOp = "clear"
    /\ storeOps = 3
    /\ lastVerifier = 1
    /\ pkceFile = {}
    /\ ~storeRaised

\* ------------------------------------------------------------------------
\* C15: without a pinned endpoint get_ride_history tries the candidates in
\* the fixed order, takes every network fault and every non-200 answer,
\* 401 included, as "try the next candidate", returns the first candidate
\* that answers 200 together with its body, and reports NoWorkingEndpoint
\* only after every candidate was tried and none answered 200.  With a
\* pinned endpoint it issues exactly one GET, to that endpoint, and
\* surfaces its failure without contacting any other candidate.
\* ------------------------------------------------------------------------
Probes == SelectSeq(log, LAMBDA e : e.ev = "GET" /\ ~e.pin)

PinnedGets == SelectSeq(log, LAMBDA e : e.ev = "GET" /\ e.pin)

C15_ProbeThenPinned ==
    LET g == Gets
        pr == Probes
        pg == PinnedGets
    IN /\ g = pr \o pg
       /\ \A j \in 1..Len(pr) :
             /\ pr[j].ep = j
             /\ pr[j].page = 1
             /\ j < Len(pr) => pr[j].st # 200
             /\ (pr[j].st # 200 /\ j < NumEndpoints) =>
                   \/ Len(pr) > j
                   \/ pc = "fetch" /\ working_endpoint = 0 /\ cand = j + 1
             /\ pr[j].st = 200 =>
                   /\ pc = "fetch" => working_endpoint = j
                   /\ \A k \in 1..Len(pg) : pg[k].ep = j
                   /\ Len(all_rides) >= pr[j].n
                   /\ SubSeq(all_rides, 1, pr[j].n) = PageRides(1, pr[j].n)
       /\ failure = "NoWorkingEndpoint" <=>
             /\ pc = "done"
             /\ Len(pr) = NumEndpoints
             /\ \A j \in 1..Len(pr) : pr[j].st # 200
       /\ \A k \in 1..Len(pg) :
             /\ pg[k].page = k + 1
             /\ Len(pr) >= 1 /\ pr[Len(pr)].st = 200
             /\ pg[k].st # 200 =>
                   /\ k = Len(pg)
                   /\ pc = "done"
                   /\ failure = (IF pg[k].st = 0 THEN "NetworkFault"
                                 ELSE IF pg[k].st = 401 THEN "AuthExpired"
                                 ELSE "ApiError")

C15_Witness ==
    /\ pc = "done"
    /\ failure = "NoWorkingEndpoint"
    /\ Len(Gets) = 2
    /\ Gets[1].ep = 1 /\ Gets[1].st = 401
    /\ Gets[2].ep = 2 /\ Gets[2].st = 0

\* ------------------------------------------------------------------------
\* The extraction of the ride list on its own: any payload shape
\* ------------------------------------------------------------------------
MaxListLen == 3

\* The lists a payload may hold at one place: k tells the places apart
ListsAt(k) == {PageRides(k, n) : n \in 0..MaxListLen}

\* The payloads get_ride_history may return: an object with any kind of
\* "data" member and with or without "rides", a list, or null
ExtractPayloads ==
    {Payload("dict", "dict", TRUE, dr, hr, rs, <<>>, <<>>) :
        dr \in ListsAt(1), hr \in BOOLEAN, rs \in ListsAt(2)}
    \cup {Payload("dict", "dict", FALSE, <<>>, hr, rs, <<>>, <<>>) :
            hr \in BOOLEAN, rs \in ListsAt(2)}
    \cup {Payload("dict", "list", FALSE, <<>>, hr, rs, di, <<>>) :
            hr \in BOOLEAN, rs \in ListsAt(2), di \in ListsAt(3)}
    \cup {Payload("dict", k, FALSE, <<>>, hr, rs, <<>>, <<>>) :
            k \in {"absent", "null"}, hr \in BOOLEAN, rs \in ListsAt(2)}
    \cup {ListPayload(it) : it \in ListsAt(4)}
    \cup {Payload("null", "absent", FALSE, <<>>, FALSE, <<>>, <<>>, <<>>)}

\* A payload is well formed when a member that is absent holds no list
WellFormed(d) == d.hasRides \/ d.rides = <<>>

\* data, working_endpoint = get_ride_history(...)
ExtractGiven(d) ==
    /\ exPhase = "none"
    /\ WellFormed(d)
    /\ exPhase' = "given"
    /\ exPayload' = d
    /\ UNCHANGED exRides
    /\ UNCHANGED <<cliVars, proxyVars, exportVars, storeVars>>

\* The if / elif / else that sets rides
ExtractDone ==
    /\ exPhase = "given"
    /\ exPhase' = "extracted"
    /\ exRides' = ExtractRides(exPayload)
    /\ UNCHANGED exPayload
    /\ UNCHANGED <<cliVars, proxyVars, exportVars, storeVars>>

NextExtract ==
    \/ \E d \in ExtractPayloads : ExtractGiven(d)
    \/ ExtractDone

SpecExtract == Init /\ [][NextExtract]_vars

\* ------------------------------------------------------------------------
\* C16 as stated: the ride list is the first match of three strategies
\* tried in order, data.rides, then top-level rides or else top-level data,
\* then the payload itself when it is a list, a strategy that does not
\* match falling through to the next: a payload whose data member is an
\* object without rides and which has a top-level rides array yields that
\* top-level array.
\* ------------------------------------------------------------------------
C16_Original ==
    exPhase = "extracted" => exRides = ExtractRidesFallThrough(exPayload)

\* C16 as amended: the ride list is taken by one of three branches chosen
\* by the shape of the payload, with no fall-through from the first: (1) an
\* object whose data member is an object yields data.rides, or the empty
\* list when data has no rides, whatever else the payload holds; (2) any
\* other object yields its top-level rides if present, else its top-level
\* data, else the empty list; (3) a payload that is a list yields itself,
\* and anything else yields the empty list.
C16_ExtractByShape ==
    exPhase = "extracted" =>
        LET d == exPayload
        IN /\ (d.top = "dict" /\ d.data = "dict" /\ d.hasDataRides) =>
                 exRides = d.dataRides
           /\ (d.top = "dict" /\ d.data = "dict" /\ ~d.hasDataRides) =>
                 exRides = <<>>
           /\ (d.top = "dict" /\ d.data # "dict" /\ d.hasRides) =>
                 exRides = d.rides
           /\ (d.top = "dict" /\ d.data = "list" /\ ~d.hasRides) =>
                 exRides = d.dataItems
           /\ (d.top = "dict" /\ d.data \in {"absent", "null"}
               /\ ~d.hasRides) => exRides = <<>>
           /\ d.top = "list" => exRides = d.items
           /\ d.top = "null" => exRides = <<>>

C16_Witness ==
    /\ exPhase = "extracted"
    /\ exPayload.top = "dict"
    /\ exPayload.data = "dict"
    /\ ~exPayload.hasDataRides
    /\ exPayload.hasRides
    /\ Len(exPayload.rides) = 2
    /\ exRides = <<>>

\* ------------------------------------------------------------------------
\* C17: after any sequence of runs with any answers of the token endpoint,
\* a persisted token pair has a non-empty refresh_token.  A successful
\* refresh whose answer has no refresh token keeps the stored one, and a
\* completed login whose answer has no refresh token persists nothing; the
\* persisted access_token can be null.
\* ------------------------------------------------------------------------
StoredRefreshAtStart == load_tokens(tokensAtStart).refresh_token

C17_RefreshTokenNeverEmpty ==
    /\ \A t \in tokensFile : t.refresh_token # 0
    /\ \A i \in 1..Len(log) :
          /\ log[i].ev = "save_tokens" => log[i].ref # 0
          /\ (log[i].ev = "POST_refresh" /\ log[i].st = 200
              /\ log[i].acc # 0 /\ log[i].ref = 0) =>
                 /\ StoredRefreshAtStart # 0
                 /\ tokensFile = {TokenPair(log[i].acc, StoredRefreshAtStart)}
          /\ (log[i].ev = "POST_code" /\ log[i].st = 200
              /\ log[i].ref = 0) =>
                 /\ tokensFile = tokensAtStart
                 /\ \A j \in 1..Len(log) : log[j].ev # "save_tokens"
                 /\ pc \in {"fetch", "done"}

C17_Witness ==
    /\ Len(log) >= 2
    /\ log[1].ev = "POST_refresh"
    /\ log[1].st = 200 /\ log[1].acc # 0 /\ log[1].ref = 0
    /\ tokensFile = {TokenPair(log[1].acc, StoredRefreshAtStart)}
    /\ tokensFile # tokensAtStart

C17_WitnessNullAccess ==
    \E t \in tokensFile : t.access_token = 0 /\ t.refresh_token # 0

\* ------------------------------------------------------------------------
\* C18: a failed operation leaves the stored token pair as it was.  A
\* failed refresh, NoPendingSession, MissingAuthCode and a failed token
\* exchange neither write nor delete the token file; MissingAuthCode also
\* leaves the pending verifier in place, and a later run with a callback
\* URL that carries a code sends the exchange with that verifier.
\* ------------------------------------------------------------------------
FailedTokenCall(e) ==
    \/ e.ev = "POST_code" /\ e.st \notin {0, 200}
    \/ e.ev = "POST_refresh" /\ (e.st \notin {0, 200}
                                 \/ (e.st = 200 /\ e.acc = 0))

C18_FailureKeepsTokens ==
    /\ [](/\ (pc = "done" /\ failure \in {"RefreshFailed", "NoPendingSession",
                                          "MissingAuthCode",
                                          "TokenExchangeFailed"}) =>
                 tokensFile = tokensAtStart
          /\ (InRun /\ callback # "none" /\ pkceAtStart = {}) =>
                 tokensFile = tokensAtStart
          /\ (InRun /\ callback = "nocode") =>
                 /\ tokensFile = tokensAtStart
                 /\ pkceFile = pkceAtStart
          /\ \A i \in 1..Len(log) :
                 FailedTokenCall(log[i]) => tokensFile = tokensAtStart)
    /\ [][(pc = "idle" /\ pkceFile # {} /\ callback' = "code") =>
             (pc' = "exchange" /\ code_verifier' \in pkceFile
              /\ pkceFile' = pkceFile)]_vars

C18_Witness ==
    /\ pc = "done"
    /\ failure = "MissingAuthCode"
    /\ tokensAtStart # {}
    /\ tokensFile = tokensAtStart
    /\ pkceAtStart # {}
    /\ pkceFile = pkceAtStart
    /\ load_pkce(pkceFile) = lastVerifier

\* ------------------------------------------------------------------------
\* C19: a callback URL takes precedence over a stored session.  A run with
\* a callback URL never sends a refresh, even with a valid token pair
\* stored, and no run issues more than one POST to the token endpoint:
\* one refresh or one authorization-code exchange, never both.
\* ------------------------------------------------------------------------
TokenPosts == {i \in 1..Len(log) : log[i].ev \in {"POST_refresh", "POST_code"}}

C19_CallbackBeforeSession ==
    /\ (InRun /\ callback # "none") =>
          /\ pc # "refresh"
          /\ \A i \in 1..Len(log) : log[i].ev # "POST_refresh"
    /\ (InRun /\ callback = "none") =>
          /\ pc # "exchange"
          /\ \A i \in 1..Len(log) : log[i].ev # "POST_code"
    /\ Cardinality(TokenPosts) <= 1
    /\ pc \in {"refresh", "exchange"} => TokenPosts = {}

C19_Witness ==
    /\ callback = "code"
    /\ tokensAtStart # {}
    /\ load_tokens(tokensAtStart).access_token # 0
    /\ load_tokens(tokensAtStart).refresh_token # 0
    /\ Len(log) >= 1
    /\ log[1].ev = "POST_code"
    /\ TokenPosts = {1}

====
